---- MODULE Spec2Model ----
(***************************************************************************)
(* The session-relay broker of flight-manager-relay (the variant with      *)
(* reconnection tokens, src/server/START-RELAY.bat lines 59-348), and,     *)
(* over the same registry and session variables, the basic variant without *)
(* tokens (src/unnamed/part_001; the actions named Basic..., SpecBasic).   *)
(*                                                                         *)
(* One action per event the Node.js event loop can run: a frame arriving   *)
(* on a socket (one action per branch of ws.on('message')), the 'close'    *)
(* event of a socket, the firing of a cleanup timer, and the peer closing  *)
(* its end of a connection.  Handlers run to completion, so each is one    *)
(* atomic step.                                                            *)
(*                                                                         *)
(* Library semantics assumed (ws): close() moves a socket from OPEN to     *)
(* CLOSING at once and its 'close' event is emitted later; frames the peer *)
(* sent before it saw the close frame are still delivered as 'message'     *)
(* events while the socket is CLOSING; send() on a socket that is not OPEN *)
(* delivers nothing and does not throw.                                    *)
(***************************************************************************)
EXTENDS Naturals, Sequences, FiniteSets, TLC

\* ---------------------------------------------------------------- bounds
\* Four configurations are checked.  Spec follows one room through its life
\* with three connections and every kind of frame; SpecTwoRooms lets two
\* connections make two fresh registrations, so that two rooms, or a code
\* collision, can occur; SpecFour follows one room with four connections of
\* well-behaved clients, two that register and two that join; SpecLive is
\* one room and two connections under the event loop's fairness.  SpecBasic
\* is the basic broker with two connections and both codes.
MaxSockets == 4                     \* connections of SpecFour
MaxFresh == 1                       \* fresh registrations of Spec and SpecFour
RelaySockets == 3                   \* connections of Spec
PairSockets == 2                    \* connections of SpecTwoRooms, SpecBasic
PairFresh == 2                      \* fresh registrations of SpecTwoRooms

MaxConnects == 3                    \* sockets one RelayClient creates (SpecClient)
MaxCalls == 2                       \* calls of testConnection in flight (SpecService)

Sockets == 1..MaxSockets
ClientSockets == 1..MaxConnects
Calls == 1..MaxCalls
NoSocket == 0                       \* null in a pc / mobile slot, no timer handle
Codes == {"K1", "K2"}               \* the room codes generateRoomCode can return
NULL == "null"                      \* null currentRoom / deviceType, absent field
NoToken == 0                        \* absent or empty reconnectionToken

\* ---------------------------------------------------------------- JSON
\* Payload texts as they appear in a relay frame.  A number literal is
\* mant * 10^exp; a string literal is kept by its contents.
MaxDoubleExp == 308

StrLit(s) == [k |-> "string", s |-> s, mant |-> 0, exp |-> 0]
NumLit(m, e) == [k |-> "number", s |-> "", mant |-> m, exp |-> e]
NullLit == [k |-> "null", s |-> "", mant |-> 0, exp |-> 0]
Absent == [k |-> "absent", s |-> "", mant |-> 0, exp |-> 0]

Payloads == {StrLit("X"), NumLit(1, 999)}

\* JSON.parse of a payload text: the JavaScript value.  A number literal
\* beyond the double range parses to Infinity.
JSONparse(text) ==
  IF text.k = "number" /\ text.mant # 0 /\ text.exp > MaxDoubleExp
    THEN [k |-> "Infinity", s |-> "", mant |-> 0, exp |-> 0]
    ELSE text

\* JSON.stringify of a JavaScript value: Infinity is written as null, an
\* undefined property is left out.
JSONstringify(value) ==
  IF value.k = "Infinity" THEN NullLit ELSE value

\* String.prototype.toUpperCase on a join_room roomCode; a roomCode that is
\* not a string has no such method (TypeError).
JoinInputs == Codes \cup {"k1"}
toUpperCase(x) == IF x = "k1" THEN "K1" ELSE x

\* ---------------------------------------------------------------- state
VARIABLES
  conn,                \* per socket: "open", "closing_local", "closing_remote", "closed"
  currentRoom,         \* per socket: the closure variable currentRoom
  deviceType,          \* per socket: the closure variable deviceType
  rooms,               \* the Map rooms: code -> room record
  reconnectionTokens,  \* the Map reconnectionTokens: token -> code
  timers,              \* pending setTimeout handles (one per closed pc socket)
  tokenCount,          \* tokens issued so far (generateReconnectionToken)
  sent,                \* frames delivered by the last handler, in order
  \* History variables, read by the properties only; those of a socket are
  \* reset when its close event has been processed.
  isReconnection,      \* per socket: isReconnection of its last register_pc
  evicted,             \* per socket: the frame that made the broker close() it
  secondaryAtPcClose,  \* per code: mobile slot when the room's primary disconnected
  \* RelayClient (src/unnamed/part_000): one client object and its sockets
  client,              \* the fields ws, roomCode, isConnected, reconnectInterval
  clientSockets,       \* per socket the client created: its connection state
  reconnectTimers,     \* pending setTimeout handles of the close handlers
  registeredInFlight,  \* sockets to which a registered frame is on its way
  userCall,            \* the caller's latest connect(): its socket, its promise
  clientCrashed,       \* an event handler threw: the process has ended
  clientHist,          \* history: disconnect() was called; sockets that got registered
  \* FlightSimService (flight-sim.service.ts)
  connectionStatus,    \* the field connectionStatus
  connectionError,     \* the field connectionError
  connectionMethod,    \* the field connectionMethod
  calls                \* per call of testConnection: where it is, what it returned

brokerVars == <<conn, currentRoom, deviceType, rooms, reconnectionTokens, timers,
                tokenCount, sent, isReconnection, evicted, secondaryAtPcClose>>
clientVars == <<client, clientSockets, reconnectTimers, registeredInFlight, userCall,
                clientCrashed, clientHist>>
serviceVars == <<connectionStatus, connectionError, connectionMethod, calls>>
\* The two endpoints are no part of the broker: its handlers leave them alone.
endpointVars == <<clientVars, serviceVars>>
vars == <<brokerVars, clientVars, serviceVars>>

\* WebSocket.readyState
readyState(s) ==
  CASE conn[s] = "open" -> "OPEN"
    [] conn[s] \in {"closing_local", "closing_remote"} -> "CLOSING"
    [] OTHER -> "CLOSED"

\* A 'message' event can still be emitted for this socket.
CanReceive(s) == conn[s] \in {"open", "closing_local"}

Frame(type, roomCode, token, isRecon, payload, message) ==
  [type |-> type, roomCode |-> roomCode, reconnectionToken |-> token,
   isReconnection |-> isRecon, payload |-> payload, message |-> message]

\* ws.send(JSON.stringify(frame)) on socket `to` whose connection state is c
Send(c, to, frame) ==
  IF to # NoSocket /\ c[to] = "open" THEN <<[to |-> to, frame |-> frame]>> ELSE <<>>

\* socket.close() called by the broker
Close(c, s) == IF c[s] = "open" THEN [c EXCEPT ![s] = "closing_local"] ELSE c

\* Map.prototype.delete / set on a function with a finite domain
MapDelete(m, key) == [x \in (DOMAIN m) \ {key} |-> m[x]]
MapSet(m, key, val) == [x \in (DOMAIN m) \cup {key} |-> IF x = key THEN val ELSE m[x]]

\* History: socket s was OPEN when the frame of socket `by`, binding `by` to
\* `room` in `role`, made the broker call s.close().
NotEvicted == [by |-> NoSocket, room |-> NULL, role |-> NULL]
Evict(c, s, by, room, role) ==
  IF s # NoSocket /\ c[s] = "open"
    THEN [evicted EXCEPT ![s] = [by |-> by, room |-> room, role |-> role]]
    ELSE evicted

Room(pc, mobile, token, timeout) ==
  [pc |-> pc, mobile |-> mobile, reconnectionToken |-> token, cleanupTimeout |-> timeout]

\* RelayClient's constructor
InitClient ==
  /\ client = [ws |-> NoSocket, roomCode |-> NULL, isConnected |-> FALSE,
               reconnectInterval |-> NoSocket]
  /\ clientSockets = [s \in ClientSockets |-> "none"]
  /\ reconnectTimers = {}
  /\ registeredInFlight = {}
  /\ userCall = [ws |-> NoSocket, promise |-> "none"]
  /\ clientCrashed = FALSE
  /\ clientHist = [disconnectCalled |-> FALSE, registered |-> {}]

\* A call slot of testConnection that is not in use.
NotCalled == [pc |-> "idle", timedOut |-> FALSE, overlapped |-> FALSE, isConnected |-> NULL]

\* FlightSimService's field initialisers
InitService ==
  /\ connectionStatus = "idle"
  /\ connectionError = NULL
  /\ connectionMethod = "simconnect"
  /\ calls = [c \in Calls |-> NotCalled]

Init ==
  /\ InitClient
  /\ InitService
  /\ conn = [s \in Sockets |-> "open"]
  /\ currentRoom = [s \in Sockets |-> NULL]
  /\ deviceType = [s \in Sockets |-> NULL]
  /\ rooms = <<>>
  /\ reconnectionTokens = <<>>
  /\ timers = {}
  /\ tokenCount = 0
  /\ sent = <<>>
  /\ isReconnection = [s \in Sockets |-> FALSE]
  /\ evicted = [s \in Sockets |-> NotEvicted]
  /\ secondaryAtPcClose = [k \in Codes |-> NoSocket]

\* ------------------------------------------------------- register_pc
\* The reconnection test of the register_pc branch.
IsReclaim(tok, req) ==
  /\ tok # NoToken /\ req # NULL
  /\ tok \in DOMAIN reconnectionTokens
  /\ reconnectionTokens[tok] = req
  /\ req \in DOMAIN rooms

\* Faulty variant of the reclaim: cancelling fails when the room holds no
\* cleanup handle, and the catch block answers instead of binding.
RegisterReclaimNeedsTimer(ws, tok, req) ==
  /\ CanReceive(ws)
  /\ IsReclaim(tok, req)
  /\ LET existingRoom == rooms[req]
         conn1 == IF existingRoom.pc # NoSocket THEN Close(conn, existingRoom.pc) ELSE conn
         frame == Frame("registered", req, tok, TRUE, Absent,
                        "PC registered with code: " \o req)
     IN IF existingRoom.cleanupTimeout = NoSocket
          THEN /\ sent' = Send(conn, ws, Frame("error", NULL, NoToken, FALSE, Absent,
                                               "Invalid message format"))
               /\ UNCHANGED <<timers, conn, rooms, currentRoom, deviceType,
                              isReconnection, evicted>>
          ELSE /\ timers' = timers \ {existingRoom.cleanupTimeout}
               /\ conn' = conn1
               /\ rooms' = [rooms EXCEPT ![req] = Room(ws, existingRoom.mobile,
                                                        existingRoom.reconnectionToken,
                                                        NoSocket)]
               /\ currentRoom' = [currentRoom EXCEPT ![ws] = req]
               /\ deviceType' = [deviceType EXCEPT ![ws] = "pc"]
               /\ sent' = Send(conn1, ws, frame)
               /\ isReconnection' = [isReconnection EXCEPT ![ws] = TRUE]
               /\ evicted' = Evict(conn, existingRoom.pc, ws, req, "pc")
  /\ UNCHANGED <<reconnectionTokens, tokenCount, secondaryAtPcClose>>
  /\ UNCHANGED endpointVars

RegisterReclaim(ws, tok, req) ==
  /\ CanReceive(ws)
  /\ IsReclaim(tok, req)
  /\ LET existingRoom == rooms[req]
         conn1 == IF existingRoom.pc # NoSocket THEN Close(conn, existingRoom.pc) ELSE conn
         frame == Frame("registered", req, tok, TRUE, Absent,
                        "PC registered with code: " \o req)
     IN /\ timers' = timers \ {existingRoom.cleanupTimeout}
        /\ conn' = conn1
        /\ rooms' = [rooms EXCEPT ![req] = Room(ws, existingRoom.mobile,
                                                 existingRoom.reconnectionToken, NoSocket)]
        /\ currentRoom' = [currentRoom EXCEPT ![ws] = req]
        /\ deviceType' = [deviceType EXCEPT ![ws] = "pc"]
        /\ sent' = Send(conn1, ws, frame)
        /\ isReconnection' = [isReconnection EXCEPT ![ws] = TRUE]
        /\ evicted' = Evict(conn, existingRoom.pc, ws, req, "pc")
  /\ UNCHANGED <<reconnectionTokens, tokenCount, secondaryAtPcClose>>
  /\ UNCHANGED endpointVars

\* generateRoomCode: any code of the alphabet, live or not.
generateRoomCode == Codes

RegisterFresh(ws, tok, req) ==
  /\ CanReceive(ws)
  /\ ~IsReclaim(tok, req)
  /\ \E roomCode \in generateRoomCode :
       LET reconnectionToken == tokenCount + 1
           frame == Frame("registered", roomCode, reconnectionToken, FALSE, Absent,
                          "PC registered with code: " \o roomCode)
       IN /\ tokenCount' = reconnectionToken
          /\ rooms' = MapSet(rooms, roomCode, Room(ws, NoSocket, reconnectionToken, NoSocket))
          /\ reconnectionTokens' = MapSet(reconnectionTokens, reconnectionToken, roomCode)
          /\ currentRoom' = [currentRoom EXCEPT ![ws] = roomCode]
          /\ deviceType' = [deviceType EXCEPT ![ws] = "pc"]
          /\ sent' = Send(conn, ws, frame)
          /\ isReconnection' = [isReconnection EXCEPT ![ws] = FALSE]
          /\ secondaryAtPcClose' = [secondaryAtPcClose EXCEPT ![roomCode] = NoSocket]
  /\ UNCHANGED <<conn, timers, evicted>>
  /\ UNCHANGED endpointVars

\* Faulty variant of join_room: the reply to the joiner carries the room's
\* reconnection token.
JoinRoomLeaksToken(ws, input) ==
  /\ CanReceive(ws)
  /\ LET roomCode == toUpperCase(input)
     IN /\ roomCode \in DOMAIN rooms
        /\ LET room == rooms[roomCode]
               conn1 == IF room.mobile # NoSocket THEN Close(conn, room.mobile) ELSE conn
           IN /\ conn' = conn1
              /\ rooms' = [rooms EXCEPT ![roomCode].mobile = ws]
              /\ currentRoom' = [currentRoom EXCEPT ![ws] = roomCode]
              /\ deviceType' = [deviceType EXCEPT ![ws] = "mobile"]
              /\ sent' = Send(conn1, ws, Frame("connected", NULL, room.reconnectionToken,
                                              FALSE, Absent, "Connected to PC successfully"))
                         \o Send(conn1, room.pc, Frame("mobile_connected", NULL, NoToken, FALSE,
                                                       Absent, "Mobile device connected"))
              /\ evicted' = Evict(conn, room.mobile, ws, roomCode, "mobile")
  /\ UNCHANGED <<reconnectionTokens, timers, tokenCount, isReconnection, secondaryAtPcClose>>
  /\ UNCHANGED endpointVars

\* ------------------------------------------------------- join_room
JoinRoom(ws, input) ==
  /\ CanReceive(ws)
  /\ LET roomCode == toUpperCase(input)
     IN /\ roomCode \in DOMAIN rooms
        /\ LET room == rooms[roomCode]
               conn1 == IF room.mobile # NoSocket THEN Close(conn, room.mobile) ELSE conn
           IN /\ conn' = conn1
              /\ rooms' = [rooms EXCEPT ![roomCode].mobile = ws]
              /\ currentRoom' = [currentRoom EXCEPT ![ws] = roomCode]
              /\ deviceType' = [deviceType EXCEPT ![ws] = "mobile"]
              /\ sent' = Send(conn1, ws, Frame("connected", NULL, NoToken, FALSE, Absent,
                                              "Connected to PC successfully"))
                         \o Send(conn1, room.pc, Frame("mobile_connected", NULL, NoToken, FALSE,
                                                       Absent, "Mobile device connected"))
              /\ evicted' = Evict(conn, room.mobile, ws, roomCode, "mobile")
  /\ UNCHANGED <<reconnectionTokens, timers, tokenCount, isReconnection, secondaryAtPcClose>>
  /\ UNCHANGED endpointVars

\* Faulty variant of the not-found branch: the session is bound to the
\* requested code before the registry is consulted.
JoinRoomInvalidBinds(ws, input) ==
  /\ CanReceive(ws)
  /\ toUpperCase(input) \notin DOMAIN rooms
  /\ currentRoom' = [currentRoom EXCEPT ![ws] = toUpperCase(input)]
  /\ deviceType' = [deviceType EXCEPT ![ws] = "mobile"]
  /\ sent' = Send(conn, ws, Frame("error", NULL, NoToken, FALSE, Absent, "Invalid room code"))
  /\ UNCHANGED <<conn, rooms, reconnectionTokens, timers,
                 tokenCount, isReconnection, evicted, secondaryAtPcClose>>
  /\ UNCHANGED endpointVars

JoinRoomInvalid(ws, input) ==
  /\ CanReceive(ws)
  /\ toUpperCase(input) \notin DOMAIN rooms
  /\ sent' = Send(conn, ws, Frame("error", NULL, NoToken, FALSE, Absent, "Invalid room code"))
  /\ UNCHANGED <<conn, currentRoom, deviceType, rooms, reconnectionTokens, timers,
                 tokenCount, isReconnection, evicted, secondaryAtPcClose>>
  /\ UNCHANGED endpointVars

\* ------------------------------------------------------- relay
\* Faulty variant of the relay branch: the data frame is sent twice.
RelayDuplicates(ws, text) ==
  /\ CanReceive(ws)
  /\ currentRoom[ws] # NULL /\ currentRoom[ws] \in DOMAIN rooms
  /\ LET room == rooms[currentRoom[ws]]
         data == [payload |-> JSONparse(text)]
         frame == Frame("data", NULL, NoToken, FALSE, JSONstringify(data.payload), "")
     IN sent' = IF deviceType[ws] = "pc" /\ room.mobile # NoSocket
                   /\ readyState(room.mobile) = "OPEN"
                  THEN Send(conn, room.mobile, frame) \o Send(conn, room.mobile, frame)
                ELSE IF deviceType[ws] = "mobile" /\ room.pc # NoSocket
                        /\ readyState(room.pc) = "OPEN"
                  THEN Send(conn, room.pc, frame) \o Send(conn, room.pc, frame)
                ELSE <<>>
  /\ UNCHANGED <<conn, currentRoom, deviceType, rooms, reconnectionTokens, timers,
                 tokenCount, isReconnection, evicted, secondaryAtPcClose>>
  /\ UNCHANGED endpointVars

\* Faulty variant of the relay branch: when the peer is missing or not open
\* the sender is told so.
RelayReportsFailure(ws, text) ==
  /\ CanReceive(ws)
  /\ currentRoom[ws] # NULL /\ currentRoom[ws] \in DOMAIN rooms
  /\ LET room == rooms[currentRoom[ws]]
         data == [payload |-> JSONparse(text)]
         frame == Frame("data", NULL, NoToken, FALSE, JSONstringify(data.payload), "")
     IN sent' = IF deviceType[ws] = "pc" /\ room.mobile # NoSocket
                   /\ readyState(room.mobile) = "OPEN"
                  THEN Send(conn, room.mobile, frame)
                ELSE IF deviceType[ws] = "mobile" /\ room.pc # NoSocket
                        /\ readyState(room.pc) = "OPEN"
                  THEN Send(conn, room.pc, frame)
                ELSE Send(conn, ws, Frame("error", NULL, NoToken, FALSE, Absent,
                                          "Peer not connected"))
  /\ UNCHANGED <<conn, currentRoom, deviceType, rooms, reconnectionTokens, timers,
                 tokenCount, isReconnection, evicted, secondaryAtPcClose>>
  /\ UNCHANGED endpointVars

Relay(ws, text) ==
  /\ CanReceive(ws)
  /\ currentRoom[ws] # NULL /\ currentRoom[ws] \in DOMAIN rooms
  /\ LET room == rooms[currentRoom[ws]]
         data == [payload |-> JSONparse(text)]
         frame == Frame("data", NULL, NoToken, FALSE, JSONstringify(data.payload), "")
     IN sent' = IF deviceType[ws] = "pc" /\ room.mobile # NoSocket
                   /\ readyState(room.mobile) = "OPEN"
                  THEN Send(conn, room.mobile, frame)
                ELSE IF deviceType[ws] = "mobile" /\ room.pc # NoSocket
                        /\ readyState(room.pc) = "OPEN"
                  THEN Send(conn, room.pc, frame)
                ELSE <<>>
  /\ UNCHANGED <<conn, currentRoom, deviceType, rooms, reconnectionTokens, timers,
                 tokenCount, isReconnection, evicted, secondaryAtPcClose>>
  /\ UNCHANGED endpointVars

\* Faulty variant of the relay branch for a sender without a room: the
\* sender's session is reset besides the error.
RelayNotInRoomResets(ws, text) ==
  /\ CanReceive(ws)
  /\ ~(currentRoom[ws] # NULL /\ currentRoom[ws] \in DOMAIN rooms)
  /\ sent' = Send(conn, ws, Frame("error", NULL, NoToken, FALSE, Absent, "Not in a room"))
  /\ currentRoom' = [currentRoom EXCEPT ![ws] = NULL]
  /\ deviceType' = [deviceType EXCEPT ![ws] = NULL]
  /\ UNCHANGED <<conn, rooms, reconnectionTokens, timers,
                 tokenCount, isReconnection, evicted, secondaryAtPcClose>>
  /\ UNCHANGED endpointVars

RelayNotInRoom(ws, text) ==
  /\ CanReceive(ws)
  /\ ~(currentRoom[ws] # NULL /\ currentRoom[ws] \in DOMAIN rooms)
  /\ sent' = Send(conn, ws, Frame("error", NULL, NoToken, FALSE, Absent, "Not in a room"))
  /\ UNCHANGED <<conn, currentRoom, deviceType, rooms, reconnectionTokens, timers,
                 tokenCount, isReconnection, evicted, secondaryAtPcClose>>
  /\ UNCHANGED endpointVars

\* Faulty variant of the catch block: the sender is closed after the error.
InvalidFrameCloses(ws, kind) ==
  /\ CanReceive(ws)
  /\ kind \in {"unparseable", "null", "join_room"}
  /\ sent' = Send(conn, ws, Frame("error", NULL, NoToken, FALSE, Absent,
                                  "Invalid message format"))
  /\ conn' = Close(conn, ws)
  /\ UNCHANGED <<currentRoom, deviceType, rooms, reconnectionTokens, timers,
                 tokenCount, isReconnection, evicted, secondaryAtPcClose>>
  /\ UNCHANGED endpointVars

\* ------------------------------------------------------- other frames
\* The frames that make the handler throw: JSON.parse fails
\* ("unparseable"), the text is the literal null, so that reading data.type
\* fails ("null"), or join_room carries no string roomCode ("join_room").
\* The catch block answers the sender.
InvalidFrame(ws, kind) ==
  /\ CanReceive(ws)
  /\ kind \in {"unparseable", "null", "join_room"}
  /\ sent' = Send(conn, ws, Frame("error", NULL, NoToken, FALSE, Absent,
                                  "Invalid message format"))
  /\ UNCHANGED <<conn, currentRoom, deviceType, rooms, reconnectionTokens, timers,
                 tokenCount, isReconnection, evicted, secondaryAtPcClose>>
  /\ UNCHANGED endpointVars

\* Faulty variant of the dispatch: a frame of an unknown type is answered
\* with an error.
OtherFrameAnswers(ws) ==
  /\ CanReceive(ws)
  /\ sent' = Send(conn, ws, Frame("error", NULL, NoToken, FALSE, Absent,
                                  "Invalid message format"))
  /\ UNCHANGED <<conn, currentRoom, deviceType, rooms, reconnectionTokens, timers,
                 tokenCount, isReconnection, evicted, secondaryAtPcClose>>
  /\ UNCHANGED endpointVars

\* A parsed frame other than null whose type matches no branch (an object
\* with another type or none, a number, a string, a boolean).
OtherFrame(ws) ==
  /\ CanReceive(ws)
  /\ sent' = <<>>
  /\ UNCHANGED <<conn, currentRoom, deviceType, rooms, reconnectionTokens, timers,
                 tokenCount, isReconnection, evicted, secondaryAtPcClose>>
  /\ UNCHANGED endpointVars

\* ------------------------------------------------------- close
\* History: for every room whose pc slot holds the closing socket, the socket
\* that was in its mobile slot when the close event arrived, if the close is
\* a disconnect (the peer closed, not the broker).
AtPcClose(ws) ==
  [k \in Codes |-> IF k \in DOMAIN rooms /\ rooms[k].pc = ws
                     THEN IF conn[ws] = "closing_remote" THEN rooms[k].mobile ELSE NoSocket
                     ELSE secondaryAtPcClose[k]]

\* Faulty variant of the pc close branch: the room and its token are deleted
\* at once, no cleanup is scheduled.
ClosePcDeletesRoom(ws) ==
  /\ conn[ws] \in {"closing_local", "closing_remote"}
  /\ currentRoom[ws] # NULL /\ currentRoom[ws] \in DOMAIN rooms
  /\ deviceType[ws] = "pc"
  /\ LET room == rooms[currentRoom[ws]]
         conn1 == [conn EXCEPT ![ws] = "closed"]
     IN /\ conn' = conn1
        /\ sent' = Send(conn1, room.mobile, Frame("pc_disconnected", NULL, NoToken, FALSE,
                                                  Absent, "PC disconnected"))
        /\ reconnectionTokens' = MapDelete(reconnectionTokens, room.reconnectionToken)
        /\ rooms' = MapDelete(rooms, currentRoom[ws])
        /\ secondaryAtPcClose' = [secondaryAtPcClose EXCEPT ![currentRoom[ws]] = NoSocket]
  /\ isReconnection' = [isReconnection EXCEPT ![ws] = FALSE]
  /\ evicted' = [evicted EXCEPT ![ws] = NotEvicted]
  /\ UNCHANGED <<currentRoom, deviceType, timers, tokenCount>>
  /\ UNCHANGED endpointVars

\* ws.on('close') of a socket whose session is bound as pc to a live room
ClosePc(ws) ==
  /\ conn[ws] \in {"closing_local", "closing_remote"}
  /\ currentRoom[ws] # NULL /\ currentRoom[ws] \in DOMAIN rooms
  /\ deviceType[ws] = "pc"
  /\ LET room == rooms[currentRoom[ws]]
         conn1 == [conn EXCEPT ![ws] = "closed"]
     IN /\ conn' = conn1
        /\ sent' = Send(conn1, room.mobile, Frame("pc_disconnected", NULL, NoToken, FALSE,
                                                  Absent, "PC disconnected"))
        /\ timers' = timers \cup {ws}
        /\ rooms' = [rooms EXCEPT ![currentRoom[ws]].cleanupTimeout = ws]
        /\ secondaryAtPcClose' = AtPcClose(ws)
  /\ isReconnection' = [isReconnection EXCEPT ![ws] = FALSE]
  /\ evicted' = [evicted EXCEPT ![ws] = NotEvicted]
  /\ UNCHANGED <<currentRoom, deviceType, reconnectionTokens, tokenCount>>
  /\ UNCHANGED endpointVars

\* Faulty variant of the mobile close branch: the primary is notified but
\* the secondary slot is not cleared.
CloseMobileKeepsSlot(ws) ==
  /\ conn[ws] \in {"closing_local", "closing_remote"}
  /\ currentRoom[ws] # NULL /\ currentRoom[ws] \in DOMAIN rooms
  /\ deviceType[ws] = "mobile"
  /\ LET room == rooms[currentRoom[ws]]
         conn1 == [conn EXCEPT ![ws] = "closed"]
     IN /\ conn' = conn1
        /\ sent' = Send(conn1, room.pc, Frame("mobile_disconnected", NULL, NoToken, FALSE,
                                              Absent, "Mobile disconnected"))
  /\ secondaryAtPcClose' = AtPcClose(ws)
  /\ isReconnection' = [isReconnection EXCEPT ![ws] = FALSE]
  /\ evicted' = [evicted EXCEPT ![ws] = NotEvicted]
  /\ UNCHANGED <<currentRoom, deviceType, rooms, reconnectionTokens, timers, tokenCount>>
  /\ UNCHANGED endpointVars

\* ws.on('close') of a socket whose session is bound as mobile to a live room
CloseMobile(ws) ==
  /\ conn[ws] \in {"closing_local", "closing_remote"}
  /\ currentRoom[ws] # NULL /\ currentRoom[ws] \in DOMAIN rooms
  /\ deviceType[ws] = "mobile"
  /\ LET room == rooms[currentRoom[ws]]
         conn1 == [conn EXCEPT ![ws] = "closed"]
     IN /\ conn' = conn1
        /\ rooms' = [rooms EXCEPT ![currentRoom[ws]].mobile = NoSocket]
        /\ sent' = Send(conn1, room.pc, Frame("mobile_disconnected", NULL, NoToken, FALSE,
                                              Absent, "Mobile disconnected"))
  /\ secondaryAtPcClose' = AtPcClose(ws)
  /\ isReconnection' = [isReconnection EXCEPT ![ws] = FALSE]
  /\ evicted' = [evicted EXCEPT ![ws] = NotEvicted]
  /\ UNCHANGED <<currentRoom, deviceType, reconnectionTokens, timers, tokenCount>>
  /\ UNCHANGED endpointVars

\* ws.on('close') of a socket with no session or whose room is gone
CloseUnbound(ws) ==
  /\ conn[ws] \in {"closing_local", "closing_remote"}
  /\ ~(currentRoom[ws] # NULL /\ currentRoom[ws] \in DOMAIN rooms)
  /\ conn' = [conn EXCEPT ![ws] = "closed"]
  /\ sent' = <<>>
  /\ secondaryAtPcClose' = AtPcClose(ws)
  /\ isReconnection' = [isReconnection EXCEPT ![ws] = FALSE]
  /\ evicted' = [evicted EXCEPT ![ws] = NotEvicted]
  /\ UNCHANGED <<currentRoom, deviceType, rooms, reconnectionTokens, timers, tokenCount>>
  /\ UNCHANGED endpointVars

\* Faulty variant of the cleanup callback: the room is deleted but its
\* token is left in the index.
CleanupTimeoutKeepsToken(t) ==
  /\ t \in timers
  /\ timers' = timers \ {t}
  /\ IF currentRoom[t] \in DOMAIN rooms
       THEN /\ rooms' = MapDelete(rooms, currentRoom[t])
            /\ secondaryAtPcClose' = [secondaryAtPcClose EXCEPT ![currentRoom[t]] = NoSocket]
       ELSE UNCHANGED <<rooms, secondaryAtPcClose>>
  /\ sent' = <<>>
  /\ UNCHANGED <<conn, currentRoom, deviceType, reconnectionTokens, tokenCount,
                 isReconnection, evicted>>
  /\ UNCHANGED endpointVars

\* The callback given to setTimeout in the pc close branch; t is the socket
\* whose close handler scheduled it, so currentRoom is that socket's.
CleanupTimeout(t) ==
  /\ t \in timers
  /\ timers' = timers \ {t}
  /\ IF currentRoom[t] \in DOMAIN rooms
       THEN /\ reconnectionTokens' = MapDelete(reconnectionTokens,
                                               rooms[currentRoom[t]].reconnectionToken)
            /\ rooms' = MapDelete(rooms, currentRoom[t])
            /\ secondaryAtPcClose' = [secondaryAtPcClose EXCEPT ![currentRoom[t]] = NoSocket]
       ELSE UNCHANGED <<rooms, reconnectionTokens, secondaryAtPcClose>>
  /\ sent' = <<>>
  /\ UNCHANGED <<conn, currentRoom, deviceType, tokenCount, isReconnection, evicted>>
  /\ UNCHANGED endpointVars

\* The peer closes its end (or the connection drops): no further frame of
\* this socket arrives, its 'close' event follows.
PeerClose(ws) ==
  /\ conn[ws] = "open"
  /\ conn' = [conn EXCEPT ![ws] = "closing_remote"]
  /\ sent' = <<>>
  /\ UNCHANGED <<currentRoom, deviceType, rooms, reconnectionTokens, timers, tokenCount,
                 isReconnection, evicted, secondaryAtPcClose>>
  /\ UNCHANGED endpointVars

\* The 'close' event of socket a, whichever branch of the handler runs.
CloseEvent(a) == ClosePc(a) \/ CloseMobile(a) \/ CloseUnbound(a)

\* ------------------------------------------------------- HTTP endpoints
\* GET /health: the body of the reply.  uptime is a reading of the process
\* clock, which is no part of the broker's state; only the field is kept.
health ==
  [status |-> "ok", activeRooms |-> Cardinality(DOMAIN rooms), uptime |-> "uptime"]

\* GET /rooms: one entry per room of the registry (the order of the entries
\* is the Map's insertion order and is not kept here).
roomList ==
  {[code |-> code, hasPc |-> rooms[code].pc # NoSocket,
    hasMobile |-> rooms[code].mobile # NoSocket] : code \in DOMAIN rooms}

\* The events of connections S, with at most F fresh registrations; a
\* register_pc may carry any issued token, a token never issued, or none.
NextFor(S, F) ==
  \/ \E ws \in S, tok \in 0..(F + 1), req \in Codes \cup {NULL} :
       RegisterReclaim(ws, tok, req)
  \/ \E ws \in S, tok \in 0..(F + 1), req \in Codes \cup {NULL} :
       tokenCount < F /\ RegisterFresh(ws, tok, req)
  \/ \E ws \in S, input \in JoinInputs : JoinRoom(ws, input)
  \/ \E ws \in S, input \in JoinInputs : JoinRoomInvalid(ws, input)
  \/ \E ws \in S, text \in Payloads : Relay(ws, text)
  \/ \E ws \in S, text \in Payloads : RelayNotInRoom(ws, text)
  \/ \E ws \in S, kind \in {"unparseable", "null", "join_room"} : InvalidFrame(ws, kind)
  \/ \E ws \in S : OtherFrame(ws)
  \/ \E ws \in S : ClosePc(ws)
  \/ \E ws \in S : CloseMobile(ws)
  \/ \E ws \in S : CloseUnbound(ws)
  \/ \E t \in S : CleanupTimeout(t)
  \/ \E ws \in S : PeerClose(ws)

\* The events of well-behaved clients: the connections P only register, the
\* connections M only join; frames that are only answered or dropped (they
\* change neither registry nor sessions) are left out.
NextRoles(P, M, F) ==
  \/ \E ws \in P, tok \in 0..(F + 1), req \in Codes \cup {NULL} :
       RegisterReclaim(ws, tok, req)
  \/ \E ws \in P, tok \in 0..(F + 1), req \in Codes \cup {NULL} :
       tokenCount < F /\ RegisterFresh(ws, tok, req)
  \/ \E ws \in M, input \in JoinInputs : JoinRoom(ws, input)
  \/ \E ws \in P \cup M : ClosePc(ws)
  \/ \E ws \in P \cup M : CloseMobile(ws)
  \/ \E ws \in P \cup M : CloseUnbound(ws)
  \/ \E t \in P \cup M : CleanupTimeout(t)
  \/ \E ws \in P \cup M : PeerClose(ws)

Next == NextFor(1..RelaySockets, MaxFresh)
NextTwoRooms == NextFor(1..PairSockets, PairFresh)
NextLive == NextFor(1..PairSockets, MaxFresh)
NextFour == NextRoles(1..PairSockets, (PairSockets + 1)..MaxSockets, MaxFresh)

\* One room, three connections.
Spec == Init /\ [][Next]_vars
\* Two fresh registrations, two connections.
SpecTwoRooms == Init /\ [][NextTwoRooms]_vars
\* One room, two connections that register, two that join.
SpecFour == Init /\ [][NextFour]_vars

\* The event loop runs every handler that is due: the 'close' event of a
\* socket that is closing is emitted, and a scheduled cleanup callback runs
\* once its delay has elapsed.  Clients are under no obligation to send.
Fairness ==
  \A s \in 1..PairSockets : WF_vars(CloseEvent(s)) /\ WF_vars(CleanupTimeout(s))

\* One room, two connections, with the event loop's progress.
SpecLive == Init /\ [][NextLive]_vars /\ Fairness

\* ===================================================== the basic broker
\* The variant without reconnection tokens.  It has the registry and the
\* two session variables only: a room is {pc, mobile} (written here as a
\* Room without token and without cleanup handle), and there is no token
\* index and no timer, so these variables keep their initial values.
tokenState == <<reconnectionTokens, timers, tokenCount, isReconnection, evicted,
                secondaryAtPcClose>>

\* register_pc: a new room under a generated code, whatever the session of
\* the sender and whether or not the code is live.
BasicRegisterPc(ws) ==
  /\ CanReceive(ws)
  /\ \E roomCode \in generateRoomCode :
       /\ currentRoom' = [currentRoom EXCEPT ![ws] = roomCode]
       /\ deviceType' = [deviceType EXCEPT ![ws] = "pc"]
       /\ rooms' = MapSet(rooms, roomCode, Room(ws, NoSocket, NoToken, NoSocket))
       /\ sent' = Send(conn, ws, Frame("registered", roomCode, NoToken, FALSE, Absent,
                                       "PC registered with code: " \o roomCode))
  /\ UNCHANGED <<conn, tokenState>>
  /\ UNCHANGED endpointVars

\* join_room with a code of the registry
BasicJoinRoom(ws, input) ==
  /\ CanReceive(ws)
  /\ LET roomCode == toUpperCase(input)
     IN /\ roomCode \in DOMAIN rooms
        /\ LET room == rooms[roomCode]
               conn1 == IF room.mobile # NoSocket THEN Close(conn, room.mobile) ELSE conn
           IN /\ conn' = conn1
              /\ rooms' = [rooms EXCEPT ![roomCode].mobile = ws]
              /\ currentRoom' = [currentRoom EXCEPT ![ws] = roomCode]
              /\ deviceType' = [deviceType EXCEPT ![ws] = "mobile"]
              /\ sent' = Send(conn1, ws, Frame("connected", NULL, NoToken, FALSE, Absent,
                                              "Connected to PC successfully"))
                         \o Send(conn1, room.pc, Frame("mobile_connected", NULL, NoToken, FALSE,
                                                       Absent, "Mobile device connected"))
  /\ UNCHANGED tokenState
  /\ UNCHANGED endpointVars

\* join_room with a code that is not in the registry
BasicJoinRoomInvalid(ws, input) ==
  /\ CanReceive(ws)
  /\ toUpperCase(input) \notin DOMAIN rooms
  /\ sent' = Send(conn, ws, Frame("error", NULL, NoToken, FALSE, Absent, "Invalid room code"))
  /\ UNCHANGED <<conn, currentRoom, deviceType, rooms, tokenState>>
  /\ UNCHANGED endpointVars

\* relay: to the opposite slot of the sender's room, or "Not in a room"
BasicRelay(ws, text) ==
  /\ CanReceive(ws)
  /\ IF ~(currentRoom[ws] # NULL /\ currentRoom[ws] \in DOMAIN rooms)
       THEN sent' = Send(conn, ws, Frame("error", NULL, NoToken, FALSE, Absent,
                                         "Not in a room"))
       ELSE LET room == rooms[currentRoom[ws]]
                data == [payload |-> JSONparse(text)]
                frame == Frame("data", NULL, NoToken, FALSE,
                               JSONstringify(data.payload), "")
            IN sent' = IF deviceType[ws] = "pc" /\ room.mobile # NoSocket
                          /\ readyState(room.mobile) = "OPEN"
                         THEN Send(conn, room.mobile, frame)
                       ELSE IF deviceType[ws] = "mobile" /\ room.pc # NoSocket
                               /\ readyState(room.pc) = "OPEN"
                         THEN Send(conn, room.pc, frame)
                       ELSE <<>>
  /\ UNCHANGED <<conn, currentRoom, deviceType, rooms, tokenState>>
  /\ UNCHANGED endpointVars

\* a frame that makes the handler throw: the catch block answers the sender
BasicInvalidFrame(ws) ==
  /\ CanReceive(ws)
  /\ sent' = Send(conn, ws, Frame("error", NULL, NoToken, FALSE, Absent,
                                  "Invalid message format"))
  /\ UNCHANGED <<conn, currentRoom, deviceType, rooms, tokenState>>
  /\ UNCHANGED endpointVars

\* ws.on('close'), session role pc: the room of the session is deleted
BasicClosePc(ws) ==
  /\ conn[ws] \in {"closing_local", "closing_remote"}
  /\ currentRoom[ws] # NULL /\ currentRoom[ws] \in DOMAIN rooms
  /\ deviceType[ws] = "pc"
  /\ LET room == rooms[currentRoom[ws]]
         conn1 == [conn EXCEPT ![ws] = "closed"]
     IN /\ conn' = conn1
        /\ sent' = Send(conn1, room.mobile, Frame("pc_disconnected", NULL, NoToken, FALSE,
                                                  Absent, "PC disconnected"))
        /\ rooms' = MapDelete(rooms, currentRoom[ws])
  /\ UNCHANGED <<currentRoom, deviceType, tokenState>>
  /\ UNCHANGED endpointVars

\* ws.on('close'), session role mobile: the secondary slot is cleared
BasicCloseMobile(ws) ==
  /\ conn[ws] \in {"closing_local", "closing_remote"}
  /\ currentRoom[ws] # NULL /\ currentRoom[ws] \in DOMAIN rooms
  /\ deviceType[ws] = "mobile"
  /\ LET room == rooms[currentRoom[ws]]
         conn1 == [conn EXCEPT ![ws] = "closed"]
     IN /\ conn' = conn1
        /\ rooms' = [rooms EXCEPT ![currentRoom[ws]].mobile = NoSocket]
        /\ sent' = Send(conn1, room.pc, Frame("mobile_disconnected", NULL, NoToken, FALSE,
                                              Absent, "Mobile disconnected"))
  /\ UNCHANGED <<currentRoom, deviceType, tokenState>>
  /\ UNCHANGED endpointVars

\* ws.on('close') of a socket with no session or whose room is gone
BasicCloseUnbound(ws) ==
  /\ conn[ws] \in {"closing_local", "closing_remote"}
  /\ ~(currentRoom[ws] # NULL /\ currentRoom[ws] \in DOMAIN rooms)
  /\ conn' = [conn EXCEPT ![ws] = "closed"]
  /\ sent' = <<>>
  /\ UNCHANGED <<currentRoom, deviceType, rooms, tokenState>>
  /\ UNCHANGED endpointVars

\* the client of ws closes its connection or loses it
BasicPeerClose(ws) ==
  /\ conn[ws] = "open"
  /\ conn' = [conn EXCEPT ![ws] = "closing_remote"]
  /\ sent' = <<>>
  /\ UNCHANGED <<currentRoom, deviceType, rooms, tokenState>>
  /\ UNCHANGED endpointVars

NextBasic ==
  \/ \E ws \in 1..PairSockets : BasicRegisterPc(ws)
  \/ \E ws \in 1..PairSockets, input \in JoinInputs : BasicJoinRoom(ws, input)
  \/ \E ws \in 1..PairSockets, input \in JoinInputs : BasicJoinRoomInvalid(ws, input)
  \/ \E ws \in 1..PairSockets, text \in Payloads : BasicRelay(ws, text)
  \/ \E ws \in 1..PairSockets : BasicInvalidFrame(ws)
  \/ \E ws \in 1..PairSockets : BasicClosePc(ws)
  \/ \E ws \in 1..PairSockets : BasicCloseMobile(ws)
  \/ \E ws \in 1..PairSockets : BasicCloseUnbound(ws)
  \/ \E ws \in 1..PairSockets : BasicPeerClose(ws)

SpecBasic == Init /\ [][NextBasic]_vars


\* ======================================================== RelayClient
\* The PC-side client of the relay (src/unnamed/part_000).  Its sockets are
\* numbered in the order connect() creates them; a socket is "none" (not yet
\* created), "connecting", "open", "closing" (disconnect() called close(),
\* the close event is still to come) or "closed" (its close event has been
\* handled).  The handlers read this.ws when they run, not the socket they
\* were attached to.  The relay is the environment: it answers a register_pc
\* with one registered frame and may drop a connection at any time.  The
\* branches of the message handler for mobile_connected, mobile_disconnected,
\* data and error change no field of the client and are left out, as is
\* sendToMobile.
serverVars == <<brokerVars, serviceVars>>

\* The socket the next `new WebSocket` creates.
NewSocket ==
  CHOOSE n \in ClientSockets \cup {NoSocket} :
    IF \E s \in ClientSockets : clientSockets[s] = "none"
      THEN /\ n \in ClientSockets /\ clientSockets[n] = "none"
           /\ \A m \in ClientSockets : m < n => clientSockets[m] # "none"
      ELSE n = NoSocket

\* connect(), lines 17-18: a new socket becomes this.ws.  (The registration
\* timeout of lines 91-95 only rejects the promise of the call.)
connect(n) ==
  /\ clientSockets' = [clientSockets EXCEPT ![n] = "connecting"]
  /\ client' = [client EXCEPT !.ws = n]

\* The caller invokes connect(): on a client that holds no socket (new, or
\* after disconnect()), or again after the promise of its last call was
\* rejected.
UserConnect ==
  /\ ~clientCrashed
  /\ client.ws = NoSocket \/ userCall.promise = "rejected"
  /\ NewSocket # NoSocket
  /\ connect(NewSocket)
  /\ userCall' = [ws |-> NewSocket, promise |-> "pending"]
  /\ UNCHANGED <<reconnectTimers, registeredInFlight, clientCrashed, clientHist, serverVars>>

\* ws.on('open') of socket s: register_pc is sent on this.ws.  Reading
\* this.ws when it is null, or send() on a socket that is still connecting,
\* throws inside the handler; send() on a closing or closed socket sends
\* nothing.
OpenEvent(s) ==
  /\ ~clientCrashed
  /\ clientSockets[s] = "connecting"
  /\ clientSockets' = [clientSockets EXCEPT ![s] = "open"]
  /\ IF client.ws = NoSocket
       THEN clientCrashed' = TRUE /\ UNCHANGED registeredInFlight
     ELSE IF client.ws # s /\ clientSockets[client.ws] = "connecting"
       THEN clientCrashed' = TRUE /\ UNCHANGED registeredInFlight
     ELSE IF client.ws = s \/ clientSockets[client.ws] = "open"
       THEN /\ registeredInFlight' = registeredInFlight \cup {client.ws}
            /\ UNCHANGED clientCrashed
     ELSE UNCHANGED <<registeredInFlight, clientCrashed>>
  /\ UNCHANGED <<client, reconnectTimers, userCall, clientHist, serverVars>>

\* ws.on('message') of socket s, a registered frame (lines 34-39): the flags
\* of the client are set and the promise of the call that created s is
\* resolved.
RegisteredMessage(s, code) ==
  /\ ~clientCrashed
  /\ s \in registeredInFlight
  /\ clientSockets[s] \in {"open", "closing"}
  /\ registeredInFlight' = registeredInFlight \ {s}
  /\ client' = [client EXCEPT !.roomCode = code, !.isConnected = TRUE]
  /\ userCall' = IF userCall.ws = s /\ userCall.promise = "pending"
                   THEN [userCall EXCEPT !.promise = "resolved"]
                   ELSE userCall
  /\ clientHist' = [clientHist EXCEPT !.registered = @ \cup {s}]
  /\ UNCHANGED <<clientSockets, reconnectTimers, clientCrashed, serverVars>>

\* Socket s closes: the connection failed or was lost (error is TRUE when
\* ws.on('error') runs first, as it does for every failed handshake), or the
\* close that disconnect() started has completed.  ws.on('error') rejects
\* the promise of the call that created s; ws.on('close') resets the flags
\* and schedules connect() in 5 seconds, keeping the handle.
ClientClose(s, error) ==
  /\ ~clientCrashed
  /\ clientSockets[s] \in {"connecting", "open", "closing"}
  /\ clientSockets[s] = "connecting" => error
  /\ clientSockets' = [clientSockets EXCEPT ![s] = "closed"]
  /\ registeredInFlight' = registeredInFlight \ {s}
  /\ userCall' = IF error /\ userCall.ws = s /\ userCall.promise = "pending"
                   THEN [userCall EXCEPT !.promise = "rejected"]
                   ELSE userCall
  /\ client' = [client EXCEPT !.isConnected = FALSE, !.roomCode = NULL,
                              !.reconnectInterval = s]
  /\ reconnectTimers' = reconnectTimers \cup {s}
  /\ UNCHANGED <<clientCrashed, clientHist, serverVars>>

\* The reconnect timer t fires (lines 79-82): connect().
ReconnectTimeout(t) ==
  /\ ~clientCrashed
  /\ t \in reconnectTimers
  /\ NewSocket # NoSocket
  /\ reconnectTimers' = reconnectTimers \ {t}
  /\ connect(NewSocket)
  /\ UNCHANGED <<registeredInFlight, userCall, clientCrashed, clientHist, serverVars>>

\* The registration timeout of the caller's latest connect() (lines 91-95).
RegistrationTimeout ==
  /\ ~clientCrashed
  /\ userCall.promise = "pending"
  /\ ~client.isConnected
  /\ userCall' = [userCall EXCEPT !.promise = "rejected"]
  /\ UNCHANGED <<client, clientSockets, reconnectTimers, registeredInFlight,
                 clientCrashed, clientHist, serverVars>>

\* disconnect() (lines 138-150)
disconnect ==
  /\ ~clientCrashed
  /\ reconnectTimers' = IF client.reconnectInterval # NoSocket
                          THEN reconnectTimers \ {client.reconnectInterval}
                          ELSE reconnectTimers
  /\ clientSockets' = IF client.ws # NoSocket
                           /\ clientSockets[client.ws] \in {"connecting", "open"}
                        THEN [clientSockets EXCEPT ![client.ws] = "closing"]
                        ELSE clientSockets
  /\ client' = [client EXCEPT !.ws = NoSocket, !.isConnected = FALSE, !.roomCode = NULL]
  /\ clientHist' = [clientHist EXCEPT !.disconnectCalled = TRUE]
  /\ UNCHANGED <<registeredInFlight, userCall, clientCrashed, serverVars>>

NextClient ==
  \/ UserConnect
  \/ \E s \in ClientSockets : OpenEvent(s)
  \/ \E s \in ClientSockets, code \in Codes : RegisteredMessage(s, code)
  \/ \E s \in ClientSockets, error \in BOOLEAN : ClientClose(s, error)
  \/ \E t \in ClientSockets : ReconnectTimeout(t)
  \/ RegistrationTimeout
  \/ disconnect

SpecClient == Init /\ [][NextClient]_vars

\* ==================================================== FlightSimService
\* The status client of the simulator bridge (flight-sim.service.ts).
\* testConnection is an async function: a call runs from its entry to its
\* first await in one step and is resumed when the awaited promise settles.
\* Calls may overlap; they share the fields of the singleton.  The HTTP
\* server is the environment: a fetch is rejected, answers with a status
\* that is not ok, or answers ok; a body is no JSON, or parses to one of the
\* values below.  A call is at "fetchStatus", "statusJson", "fetchFlight" or
\* "flightJson" while it waits, "done" when its promise has resolved with
\* isConnected "true" or "false".
otherVars == <<brokerVars, clientVars>>

FetchOutcomes == {"rejected", "notOk", "ok"}

\* Bodies of /api/status: no JSON ("invalid"), the literal null, or an
\* object; an absent property reads as undefined, which is falsy.
StatusData(fsConnected, success, wasmStatus, bridgeStatus) ==
  [fsConnected |-> fsConnected, connected |-> FALSE, success |-> success,
   wasmStatus |-> wasmStatus, bridgeStatus |-> bridgeStatus]
StatusBodies ==
  {StatusData(FALSE, FALSE, "disconnected", FALSE),
   StatusData(TRUE, FALSE, "disconnected", FALSE),
   StatusData(FALSE, FALSE, "connected", FALSE),
   StatusData(FALSE, TRUE, "disconnected", TRUE)}
BodyKinds == {"invalid", "null", "object"}

\* The checks of lines 246-256 on a parsed status object.
statusAccepted(method, statusData) ==
  IF method = "wasm"
    THEN ~(statusData.wasmStatus # "connected" /\ ~statusData.bridgeStatus)
    ELSE ~(~statusData.fsConnected /\ ~statusData.connected /\ ~statusData.success)

Running(c) == calls[c].pc \notin {"idle", "done"}

\* Faulty variant of the catch block: the call returns isConnected false
\* without recording the failure.
catchKeepsStatus(c, message) ==
  /\ calls' = [calls EXCEPT ![c].pc = "done", ![c].isConnected = "false"]
  /\ UNCHANGED <<connectionStatus, connectionError>>

\* The catch block (lines 334-342): the error is recorded and the call
\* resolves with isConnected false.
catch(c, message) ==
  /\ connectionStatus' = "error"
  /\ connectionError' = message
  /\ calls' = [calls EXCEPT ![c].pc = "done", ![c].isConnected = "false"]

\* Entry of testConnection up to the first await (lines 198-236).
testConnection(c) ==
  /\ ~Running(c)
  /\ connectionStatus' = "connecting"
  /\ connectionError' = NULL
  /\ calls' = [x \in Calls |->
                 IF x = c
                   THEN [pc |-> "fetchStatus", timedOut |-> FALSE,
                         overlapped |-> \E y \in Calls \ {c} : Running(y),
                         isConnected |-> NULL]
                 ELSE IF Running(x) THEN [calls[x] EXCEPT !.overlapped = TRUE]
                 ELSE calls[x]]
  /\ UNCHANGED <<connectionMethod, otherVars>>

\* The fetch of /api/status settles (lines 233-242).
StatusFetched(c, outcome) ==
  /\ calls[c].pc = "fetchStatus"
  /\ CASE outcome = "rejected" -> catch(c, "Network request failed")
       [] outcome = "notOk" -> catch(c, "Server responded with status: 500")
       [] OTHER -> /\ calls' = [calls EXCEPT ![c].pc = "statusJson"]
                   /\ UNCHANGED <<connectionStatus, connectionError>>
  /\ UNCHANGED <<connectionMethod, otherVars>>

\* response.json() of the status settles (lines 242-270): the checks on the
\* status, then the second race, which the timeout has already decided when
\* it fired during the parse.
StatusParsed(c, kind, statusData) ==
  /\ calls[c].pc = "statusJson"
  /\ CASE kind = "invalid" -> catch(c, "Unexpected token in JSON")
       [] kind = "null" -> catch(c, "Cannot read properties of null")
       [] OTHER ->
            IF ~statusAccepted(connectionMethod, statusData)
              THEN catch(c, "Server is running but not connected to Flight Simulator")
            ELSE IF calls[c].timedOut
              THEN catch(c, "Connection timed out after 10 seconds")
            ELSE /\ calls' = [calls EXCEPT ![c].pc = "fetchFlight"]
                 /\ UNCHANGED <<connectionStatus, connectionError>>
  /\ UNCHANGED <<connectionMethod, otherVars>>

\* The fetch of the flight data settles (lines 267-276).
FlightFetched(c, outcome) ==
  /\ calls[c].pc = "fetchFlight"
  /\ CASE outcome = "rejected" -> catch(c, "Network request failed")
       [] outcome = "notOk" -> catch(c, "Server responded with status: 500")
       [] OTHER -> /\ calls' = [calls EXCEPT ![c].pc = "flightJson"]
                   /\ UNCHANGED <<connectionStatus, connectionError>>
  /\ UNCHANGED <<connectionMethod, otherVars>>

\* response.json() of the flight data settles (lines 276-333): the status
\* becomes CONNECTED, then the fields are read from flightData.data, which
\* throws when the body was the literal null.
FlightParsed(c, kind) ==
  /\ calls[c].pc = "flightJson"
  /\ CASE kind = "invalid" -> catch(c, "Unexpected token in JSON")
       [] kind = "null" -> catch(c, "Cannot read properties of null")
       [] OTHER -> /\ connectionStatus' = "connected"
                   /\ calls' = [calls EXCEPT ![c].pc = "done", ![c].isConnected = "true"]
                   /\ UNCHANGED connectionError
  /\ UNCHANGED <<connectionMethod, otherVars>>

\* The 10-second timer of a call fires (line 227): the race the call is
\* waiting in is rejected; while the call waits for a body, the rejection is
\* only kept for the next race.
ConnectionTimeout(c) ==
  /\ Running(c)
  /\ ~calls[c].timedOut
  /\ IF calls[c].pc \in {"fetchStatus", "fetchFlight"}
       THEN catch(c, "Connection timed out after 10 seconds")
       ELSE /\ calls' = [calls EXCEPT ![c].timedOut = TRUE]
            /\ UNCHANGED <<connectionStatus, connectionError>>
  /\ UNCHANGED <<connectionMethod, otherVars>>

\* resetConnectionStatus (lines 348-351)
resetConnectionStatus ==
  /\ connectionStatus' = "idle"
  /\ connectionError' = NULL
  /\ UNCHANGED <<connectionMethod, calls, otherVars>>

\* setConnectionConfig (lines 133-146); the endpoint only names the server.
setConnectionConfig(method) ==
  /\ connectionMethod' = method
  /\ UNCHANGED <<connectionStatus, connectionError, calls, otherVars>>

NextService ==
  \/ \E c \in Calls : testConnection(c)
  \/ \E c \in Calls, outcome \in FetchOutcomes : StatusFetched(c, outcome)
  \/ \E c \in Calls, kind \in BodyKinds, statusData \in StatusBodies :
       StatusParsed(c, kind, statusData)
  \/ \E c \in Calls, outcome \in FetchOutcomes : FlightFetched(c, outcome)
  \/ \E c \in Calls, kind \in BodyKinds : FlightParsed(c, kind)
  \/ \E c \in Calls : ConnectionTimeout(c)
  \/ resetConnectionStatus
  \/ \E method \in {"simconnect", "wasm"} : setConnectionConfig(method)

SpecService == Init /\ [][NextService]_vars

\* ================================================================ claims
IsOpen(s) == s # NoSocket /\ conn[s] = "open"

\* Socket s has a session bound to room k in the given role.
Bound(s, k, role) == currentRoom[s] = k /\ deviceType[s] = role

\* The pending cleanup tasks whose callback would delete room k.
PendingFor(k) == {t \in timers : currentRoom[t] = k}

\* C1: last join wins.  When the close event of a socket a is processed that
\* was open in room k's secondary slot and was closed by the join_room of a
\* different socket b, and b is still open and still k's bound secondary,
\* then b is k's bound secondary afterwards too.  (Stated for sockets a and b
\* that are not also the room's primary.)
C1_LastJoinWins ==
  [][\A a \in Sockets :
       (/\ CloseEvent(a)
        /\ evicted[a].role = "mobile"
        /\ evicted[a].by # a
        /\ IsOpen(evicted[a].by)
        /\ evicted[a].room \in DOMAIN rooms
        /\ rooms[evicted[a].room].mobile = evicted[a].by
        /\ rooms[evicted[a].room].pc \notin {a, evicted[a].by}
        /\ Bound(a, evicted[a].room, "mobile")
        /\ Bound(evicted[a].by, evicted[a].room, "mobile"))
       => (/\ evicted[a].room \in DOMAIN rooms'
           /\ rooms'[evicted[a].room].mobile = evicted[a].by)]_vars

\* C2: a room reclaimed by a register_pc with its token and code is not
\* removed from the registry, nor its token from the index, by any step
\* during which the reclaiming socket stays open in the room's primary slot.
C2_NoCleanupWhilePrimaryOpen ==
  [][\A s \in Sockets : \A k \in DOMAIN rooms :
       (/\ conn[s] = "open" /\ conn'[s] = "open"
        /\ isReconnection[s] /\ Bound(s, k, "pc")
        /\ rooms[k].pc = s)
       => (/\ k \in DOMAIN rooms'
           /\ (rooms[k].reconnectionToken \in DOMAIN reconnectionTokens
                 => rooms[k].reconnectionToken \in DOMAIN reconnectionTokens'))]_vars

\* C3: a new socket that sends register_pc with the token and code of a room
\* whose primary has disconnected is answered registered(code, token,
\* isReconnection = true); and the socket that was the room's secondary when
\* the primary's close was processed, if it has stayed open since as a
\* secondary of that room, is the room's bound secondary afterwards, with
\* the new socket as primary, so that a relay frame of either reaches the
\* other.
C3_ReclaimKeepsSecondary ==
  [][\A ws \in Sockets, tok \in 1..(PairFresh + 1), req \in Codes :
       (/\ RegisterReclaim(ws, tok, req)
        /\ conn[ws] = "open" /\ currentRoom[ws] = NULL
        /\ rooms[req].reconnectionToken = tok
        /\ conn[rooms[req].pc] = "closed")
       => (/\ sent' = <<[to |-> ws,
                        frame |-> Frame("registered", req, tok, TRUE, Absent,
                                        "PC registered with code: " \o req)]>>
           /\ LET m == secondaryAtPcClose[req]
              IN (IsOpen(m) /\ Bound(m, req, "mobile"))
                 => (/\ rooms'[req].mobile = m
                     /\ rooms'[req].pc = ws
                     /\ conn'[m] = "open" /\ conn'[ws] = "open"))]_vars

\* C4: a room whose primary slot holds an open socket has no pending cleanup
\* task, and no room has more than one pending cleanup task.
C4_CleanupOnlyWhileOrphaned ==
  \A k \in DOMAIN rooms :
    /\ IsOpen(rooms[k].pc) => PendingFor(k) = {}
    /\ Cardinality(PendingFor(k)) <= 1

\* C5: for every room code and role, at most one open socket has a session
\* bound to that code in that role.
C5_OneSessionPerRole ==
  \A k \in Codes : \A role \in {"pc", "mobile"} :
    Cardinality({s \in Sockets : conn[s] = "open" /\ Bound(s, k, role)}) <= 1

\* C6: a relay frame with payload p from the socket bound as primary of a
\* room whose secondary slot holds an open socket is delivered to that
\* secondary as exactly one data frame whose payload is p; and the same from
\* the bound secondary to the open primary.
C6_RelayPayloadUnmodified ==
  [][\A ws \in Sockets, p \in Payloads :
       (/\ Relay(ws, p)
        /\ conn[ws] = "open"
        /\ LET room == rooms[currentRoom[ws]]
           IN \/ /\ deviceType[ws] = "pc" /\ room.pc = ws
                 /\ IsOpen(room.mobile) /\ room.mobile # ws
                 /\ Bound(room.mobile, currentRoom[ws], "mobile")
              \/ /\ deviceType[ws] = "mobile" /\ room.mobile = ws
                 /\ IsOpen(room.pc) /\ room.pc # ws
                 /\ Bound(room.pc, currentRoom[ws], "pc"))
       => LET room == rooms[currentRoom[ws]]
              peer == IF deviceType[ws] = "pc" THEN room.mobile ELSE room.pc
          IN sent' = <<[to |-> peer, frame |-> Frame("data", NULL, NoToken, FALSE, p, "")]>>]_vars

\* C7: a socket is referenced by the slots of at most one room, and by at
\* most one slot of that room.
SlotsOf(s) ==
  {<<k, "pc">> : k \in {c \in DOMAIN rooms : rooms[c].pc = s}}
    \cup {<<k, "mobile">> : k \in {c \in DOMAIN rooms : rooms[c].mobile = s}}

C7_SocketInOneSlot ==
  \A s \in Sockets : Cardinality(SlotsOf(s)) <= 1

\* C8: the token index and the room registry agree: every indexed token maps
\* to a live room that stores that token, and every live room's token is
\* indexed and maps to that room's code.
C8_TokenIndexAgrees ==
  /\ \A tok \in DOMAIN reconnectionTokens :
       /\ reconnectionTokens[tok] \in DOMAIN rooms
       /\ rooms[reconnectionTokens[tok]].reconnectionToken = tok
  /\ \A k \in DOMAIN rooms :
       /\ rooms[k].reconnectionToken \in DOMAIN reconnectionTokens
       /\ reconnectionTokens[rooms[k].reconnectionToken] = k

\* C9: every room whose primary socket has closed is eventually removed
\* from the registry, unless a socket reclaims it (which puts another socket
\* in its primary slot); no room stays in the registry forever without a
\* connected primary.
C9_OrphanEventuallyRemoved ==
  \A k \in Codes :
    (k \in DOMAIN rooms /\ conn[rooms[k].pc] = "closed")
      ~> (k \notin DOMAIN rooms \/ conn[rooms[k].pc] # "closed")

\* C10: the code of a room created by a register_pc that does not reclaim
\* differs from the code of every room in the registry at that moment.
C10_FreshCodeUnique ==
  [][\A ws \in Sockets, tok \in 0..(PairFresh + 1), req \in Codes \cup {NULL} :
       RegisterFresh(ws, tok, req) => currentRoom'[ws] \notin DOMAIN rooms]_vars

\* A registered frame delivered to socket ws as the only frame of the step.
RegisteredReply(ws) ==
  /\ Len(sent') = 1
  /\ sent'[1].to = ws
  /\ sent'[1].frame.type = "registered"

\* C11: the cleanup callback that deletes room K also removes K's token from
\* the index, and nothing else ever removes an index entry; a token that
\* was issued and is no longer in the index (its room's cleanup has fired)
\* never returns to it, and a register_pc carrying it, with any requested
\* code, is answered registered with isReconnection = false, a freshly
\* generated code and a token never issued before.
C11_ExpiredTokenRegistersFresh ==
  [][/\ \A t \in Sockets :
          (CleanupTimeout(t) /\ currentRoom[t] \in DOMAIN rooms)
          => (/\ currentRoom[t] \notin DOMAIN rooms'
              /\ rooms[currentRoom[t]].reconnectionToken \notin DOMAIN reconnectionTokens')
     /\ \A tok \in DOMAIN reconnectionTokens :
          tok \notin DOMAIN reconnectionTokens'
          => \E t \in Sockets : /\ CleanupTimeout(t)
                                /\ currentRoom[t] \in DOMAIN rooms
                                /\ rooms[currentRoom[t]].reconnectionToken = tok
     /\ \A tok \in 1..tokenCount :
          tok \notin DOMAIN reconnectionTokens
          => (/\ tok \notin DOMAIN reconnectionTokens'
              /\ \A ws \in Sockets, req \in Codes :
                   (/\ conn[ws] = "open"
                    /\ (RegisterReclaim(ws, tok, req) \/ RegisterFresh(ws, tok, req)))
                   => (/\ RegisteredReply(ws)
                       /\ sent'[1].frame.isReconnection = FALSE
                       /\ sent'[1].frame.reconnectionToken \notin 0..tokenCount
                       /\ sent'[1].frame.roomCode \in generateRoomCode
                       /\ sent'[1].frame.roomCode = currentRoom'[ws]
                       /\ rooms'[currentRoom'[ws]].reconnectionToken
                            = sent'[1].frame.reconnectionToken))]_vars

\* C11 witness: a token was issued and has left the index, and an open socket
\* has just been answered registered, isReconnection = false, with the token
\* issued last.
C11_Witness ==
  /\ tokenCount >= 2
  /\ \E tok \in 1..(tokenCount - 1) : tok \notin DOMAIN reconnectionTokens
  /\ Len(sent) = 1
  /\ conn[sent[1].to] = "open"
  /\ sent[1].frame.type = "registered"
  /\ sent[1].frame.isReconnection = FALSE
  /\ sent[1].frame.reconnectionToken = tokenCount

\* C12: a join_room whose code (upper-cased) is not in the registry sends
\* one error frame to the joining socket and to nobody else, and changes no
\* room, no token-index entry, no cleanup task, no session (the joining
\* socket's included) and no connection.
C12_JoinUnknownCode ==
  [][\A ws \in Sockets, input \in JoinInputs :
       (/\ toUpperCase(input) \notin DOMAIN rooms
        /\ conn[ws] = "open"
        /\ (JoinRoom(ws, input) \/ JoinRoomInvalid(ws, input)))
       => (/\ sent' = <<[to |-> ws,
                        frame |-> Frame("error", NULL, NoToken, FALSE, Absent,
                                        "Invalid room code")]>>
           /\ rooms' = rooms
           /\ reconnectionTokens' = reconnectionTokens
           /\ timers' = timers
           /\ currentRoom' = currentRoom
           /\ deviceType' = deviceType
           /\ conn' = conn)]_vars

\* C12 witness: a socket whose session is bound to a live room has just been
\* answered "Invalid room code".
C12_Witness ==
  /\ Len(sent) = 1
  /\ sent[1].frame.type = "error"
  /\ sent[1].frame.message = "Invalid room code"
  /\ conn[sent[1].to] = "open"
  /\ currentRoom[sent[1].to] \in DOMAIN rooms

\* The slot of the role opposite to the session role of socket s, in the
\* room its session is bound to.
OppositeSlot(s) ==
  IF deviceType[s] = "pc" THEN rooms[currentRoom[s]].mobile ELSE rooms[currentRoom[s]].pc

\* C13: a relay frame from a socket whose session is bound to a live room,
\* while the opposite role's slot of that room is empty or holds a socket
\* that is not open, delivers no frame to anyone (no data frame, nothing
\* back to the sender), leaves every connection as it was, the sender's
\* included, and changes neither the registry nor the token index.
C13_RelayWithoutPeerDropped ==
  [][\A ws \in Sockets, p \in Payloads :
       (/\ conn[ws] = "open"
        /\ currentRoom[ws] \in DOMAIN rooms
        /\ ~IsOpen(OppositeSlot(ws))
        /\ (Relay(ws, p) \/ RelayNotInRoom(ws, p)))
       => (/\ sent' = <<>>
           /\ conn' = conn
           /\ rooms' = rooms
           /\ reconnectionTokens' = reconnectionTokens
           /\ timers' = timers)]_vars

\* C13 witness: an open socket is bound to a live room whose opposite slot
\* holds a socket that is no longer open, and the last handler delivered
\* nothing.
C13_Witness ==
  /\ sent = <<>>
  /\ \E s \in Sockets :
       /\ conn[s] = "open"
       /\ currentRoom[s] \in DOMAIN rooms
       /\ OppositeSlot(s) \notin {NoSocket, s}
       /\ conn[OppositeSlot(s)] # "open"

\* C14: every register_pc frame of an open socket, with or without token
\* and requested code, is answered with exactly one registered frame, and
\* after the step the registry holds a room under the returned code whose
\* primary slot is the sending socket and whose token is the returned token.
C14_RegisterAlwaysAnswered ==
  [][\A ws \in Sockets, tok \in 0..(PairFresh + 1), req \in Codes \cup {NULL} :
       (/\ conn[ws] = "open"
        /\ (RegisterReclaim(ws, tok, req) \/ RegisterFresh(ws, tok, req)))
       => (/\ RegisteredReply(ws)
           /\ sent'[1].frame.roomCode \in DOMAIN rooms'
           /\ rooms'[sent'[1].frame.roomCode].pc = ws
           /\ rooms'[sent'[1].frame.roomCode].reconnectionToken
                = sent'[1].frame.reconnectionToken)]_vars

\* C15: a register_pc of an open socket that carries a token but is not a
\* reclaim (the token is not in the index, or maps to another code than the
\* requested one, or no code is requested) is answered registered with
\* isReconnection = false, and the room the token belongs to, if any, keeps
\* its primary slot, secondary slot, token and pending cleanup task.
\* (Stated for a sender that is not that room's primary.)
C15_RejectedTokenLeavesRoom ==
  [][\A ws \in Sockets, tok \in 1..(PairFresh + 1), req \in Codes \cup {NULL} :
       (/\ conn[ws] = "open"
        /\ ~IsReclaim(tok, req)
        /\ (RegisterReclaim(ws, tok, req) \/ RegisterFresh(ws, tok, req)))
       => (/\ RegisteredReply(ws)
           /\ sent'[1].frame.isReconnection = FALSE
           /\ (/\ tok \in DOMAIN reconnectionTokens
               /\ reconnectionTokens[tok] \in DOMAIN rooms
               /\ rooms[reconnectionTokens[tok]].pc # ws)
              => (/\ reconnectionTokens[tok] \in DOMAIN rooms'
                  /\ rooms'[reconnectionTokens[tok]] = rooms[reconnectionTokens[tok]]
                  /\ timers' = timers))]_vars

\* C16: a session that is bound keeps its role and its room code, whatever
\* frame the socket sends: role and room change only from unbound.
C16_SessionFixedOnceBound ==
  [][\A s \in Sockets :
       currentRoom[s] # NULL
       => (currentRoom'[s] = currentRoom[s] /\ deviceType'[s] = deviceType[s])]_vars

\* C17: the close event of a primary socket a that was evicted by the
\* reclaiming register_pc of another socket b sends no pc_disconnected to
\* anyone while b is open and bound as the room's primary.  (Stated for a
\* room whose secondary slot holds neither a nor b.)
C17_EvictedPrimaryCloseIsSilent ==
  [][\A a \in Sockets :
       (/\ CloseEvent(a)
        /\ evicted[a].role = "pc"
        /\ evicted[a].by # a
        /\ IsOpen(evicted[a].by)
        /\ evicted[a].room \in DOMAIN rooms
        /\ rooms[evicted[a].room].pc = evicted[a].by
        /\ rooms[evicted[a].room].mobile \notin {a, evicted[a].by}
        /\ Bound(evicted[a].by, evicted[a].room, "pc"))
       => \A i \in DOMAIN sent' : sent'[i].frame.type # "pc_disconnected"]_vars

\* C18: when the close event of a socket is processed whose session is
\* bound as primary to a registered room K, K stays in the registry with
\* the same token, primary slot and secondary slot, the token
\* index is unchanged, the secondary is sent pc_disconnected if it is open
\* (and nothing else is sent), and a cleanup task for K is pending and
\* stored in the room afterwards.
C18_PrimaryCloseKeepsRoom ==
  [][\A ws \in Sockets, k \in Codes :
       (/\ k \in DOMAIN rooms
        /\ Bound(ws, k, "pc")
        /\ CloseEvent(ws))
       => (/\ k \in DOMAIN rooms'
           /\ rooms'[k].reconnectionToken = rooms[k].reconnectionToken
           /\ rooms'[k].mobile = rooms[k].mobile
           /\ rooms'[k].pc = rooms[k].pc
           /\ reconnectionTokens' = reconnectionTokens
           /\ sent' = IF IsOpen(rooms[k].mobile)
                        THEN <<[to |-> rooms[k].mobile,
                                frame |-> Frame("pc_disconnected", NULL, NoToken, FALSE,
                                                Absent, "PC disconnected")]>>
                        ELSE <<>>
           /\ rooms'[k].cleanupTimeout \in timers'
           /\ rooms'[k].cleanupTimeout \notin timers
           /\ currentRoom'[rooms'[k].cleanupTimeout] = k)]_vars

\* C18 witness: a primary has closed; its room is still registered with a
\* pending cleanup task, and its open secondary has just been sent
\* pc_disconnected.
C18_Witness ==
  \E k \in DOMAIN rooms :
    /\ conn[rooms[k].pc] = "closed"
    /\ Bound(rooms[k].pc, k, "pc")
    /\ rooms[k].cleanupTimeout \in timers
    /\ IsOpen(rooms[k].mobile)
    /\ Bound(rooms[k].mobile, k, "mobile")
    /\ rooms[k].reconnectionToken \in DOMAIN reconnectionTokens
    /\ Len(sent) = 1
    /\ sent[1].to = rooms[k].mobile
    /\ sent[1].frame.type = "pc_disconnected"

\* C19: when the close event of a socket is processed whose session is
\* bound as secondary to a registered room K, K stays
\* in the registry with an empty secondary slot and its primary slot, token
\* and cleanup handle unchanged, the token index and the pending cleanup
\* tasks are unchanged, and the primary is sent mobile_disconnected if it is
\* open (nothing else is sent); and a join_room of an open socket with the
\* code of a registered room whose secondary slot is empty binds that socket
\* as the room's secondary and answers it connected, no token being asked.
C19_SecondaryCloseClearsSlot ==
  [][/\ \A ws \in Sockets, k \in Codes :
          (/\ k \in DOMAIN rooms
           /\ Bound(ws, k, "mobile")
           /\ CloseEvent(ws))
          => (/\ k \in DOMAIN rooms'
              /\ rooms'[k] = [rooms[k] EXCEPT !.mobile = NoSocket]
              /\ reconnectionTokens' = reconnectionTokens
              /\ timers' = timers
              /\ sent' = IF IsOpen(rooms[k].pc)
                           THEN <<[to |-> rooms[k].pc,
                                   frame |-> Frame("mobile_disconnected", NULL, NoToken,
                                                   FALSE, Absent, "Mobile disconnected")]>>
                           ELSE <<>>)
     /\ \A ws \in Sockets, input \in JoinInputs :
          (/\ conn[ws] = "open"
           /\ toUpperCase(input) \in DOMAIN rooms
           /\ rooms[toUpperCase(input)].mobile = NoSocket
           /\ (JoinRoom(ws, input) \/ JoinRoomInvalid(ws, input)))
          => (/\ rooms'[toUpperCase(input)].mobile = ws
              /\ currentRoom'[ws] = toUpperCase(input)
              /\ deviceType'[ws] = "mobile"
              /\ conn'[ws] = "open"
              /\ Len(sent') >= 1
              /\ sent'[1] = [to |-> ws,
                             frame |-> Frame("connected", NULL, NoToken, FALSE, Absent,
                                             "Connected to PC successfully")])]_vars

\* C19 witness: a secondary has closed; its room is registered with an empty
\* secondary slot, and the open primary has just been sent
\* mobile_disconnected.
C19_Witness ==
  \E k \in DOMAIN rooms :
    /\ rooms[k].mobile = NoSocket
    /\ \E s \in Sockets : conn[s] = "closed" /\ Bound(s, k, "mobile")
    /\ IsOpen(rooms[k].pc)
    /\ Bound(rooms[k].pc, k, "pc")
    /\ Len(sent) = 1
    /\ sent[1].to = rooms[k].pc
    /\ sent[1].frame.type = "mobile_disconnected"

\* C20: every frame delivered by a relay step of a socket whose session is
\* bound to room K goes to a socket whose own session is bound to K: no
\* socket receives a payload from a room other than its session's.
C20_NoCrossRoomDelivery ==
  [][\A ws \in Sockets, p \in Payloads :
       Relay(ws, p)
       => \A i \in DOMAIN sent' : currentRoom[sent'[i].to] = currentRoom[ws]]_vars

\* C21: the socket in the primary slot of a registered room changes only in
\* a step in which some socket's register_pc presents that room's code
\* together with the reconnection token stored in the room.
C21_PrimaryChangesOnlyByToken ==
  [][\A k \in DOMAIN rooms :
       (k \in DOMAIN rooms' /\ rooms'[k].pc # rooms[k].pc)
       => \E ws \in Sockets : RegisterReclaim(ws, rooms[k].reconnectionToken, k)]_vars

\* The data frames among the frames delivered by the step.
DataFramesSent == {i \in DOMAIN sent' : sent'[i].frame.type = "data"}

C23_InvalidFrameOnlyAnswered ==
  [][\A ws \in Sockets, kind \in {"unparseable", "null", "join_room"} :
       (InvalidFrame(ws, kind) /\ conn[ws] = "open")
       => (/\ Len(sent') = 1
           /\ sent'[1].to = ws
           /\ sent'[1].frame.type = "error"
           /\ sent'[1].frame.message = "Invalid message format"
           /\ rooms' = rooms
           /\ reconnectionTokens' = reconnectionTokens
           /\ currentRoom' = currentRoom
           /\ deviceType' = deviceType
           /\ timers' = timers
           /\ conn' = conn)]_vars

\* C23 witness: a secondary bound to a room with an open primary has just
\* been answered "Invalid message format" and is still open and in its slot.
C23_Witness ==
  /\ Len(sent) = 1
  /\ sent[1].frame.type = "error"
  /\ sent[1].frame.message = "Invalid message format"
  /\ IsOpen(sent[1].to)
  /\ \E k \in DOMAIN rooms :
       /\ Bound(sent[1].to, k, "mobile")
       /\ rooms[k].mobile = sent[1].to
       /\ IsOpen(rooms[k].pc)

\* C24: every delivered frame that carries a reconnection token is a
\* registered frame, names a room of the registry for which the token index
\* holds that token, and is delivered to the socket that this step has put
\* in that room's primary slot and whose session is bound to the room as
\* primary; the token stored in a room is delivered in no frame that names
\* another room; connected, presence, data and error frames carry no token,
\* and neither the health reply nor an entry of the room listing has a
\* token field.
C24_TokenOnlyToPrimary ==
  /\ \A i \in DOMAIN sent :
       LET f == sent[i].frame
       IN /\ f.type # "registered" => f.reconnectionToken = NoToken
          /\ f.reconnectionToken # NoToken
               => (/\ f.roomCode \in DOMAIN rooms
                   /\ f.reconnectionToken \in DOMAIN reconnectionTokens
                   /\ reconnectionTokens[f.reconnectionToken] = f.roomCode
                   /\ \A k \in DOMAIN rooms :
                        rooms[k].reconnectionToken = f.reconnectionToken
                        => k = f.roomCode
                   /\ rooms[f.roomCode].pc = sent[i].to
                   /\ Bound(sent[i].to, f.roomCode, "pc"))
  /\ DOMAIN health = {"status", "activeRooms", "uptime"}
  /\ \A e \in roomList : DOMAIN e = {"code", "hasPc", "hasMobile"}

\* C24 witness: a registered frame with a token has just been delivered to
\* the primary of a room that has an open secondary, and the listing shows
\* the room.
C24_Witness ==
  /\ Len(sent) = 1
  /\ sent[1].frame.type = "registered"
  /\ sent[1].frame.reconnectionToken # NoToken
  /\ \E k \in DOMAIN rooms :
       /\ rooms[k].pc = sent[1].to
       /\ IsOpen(rooms[k].mobile)
       /\ rooms[k].mobile # rooms[k].pc
       /\ [code |-> k, hasPc |-> TRUE, hasMobile |-> TRUE] \in roomList

\* C25: the room listing reports a role as bound exactly when a connected
\* socket occupies its slot; stated here for the case the claim singles
\* out: a room whose primary was disconnected by its peer and whose close
\* event has been processed (cleanup pending, the secondary still
\* connected) is listed with no primary bound.
C25_OrphanListedWithoutPrimary ==
  \A e \in roomList :
    LET room == rooms[e.code]
    IN (/\ conn[room.pc] = "closed"
        /\ room.cleanupTimeout = room.pc
        /\ room.pc \in timers
        /\ IsOpen(room.mobile)
        /\ secondaryAtPcClose[e.code] = room.mobile)
       => ~e.hasPc

\* C26: cancelling and firing a cleanup task are no-ops when there is
\* nothing to do.  (a) A reclaiming register_pc on a room that has no
\* pending cleanup task binds the sender as the room's primary, keeps the
\* secondary slot and the pending tasks of other rooms, delivers no error
\* frame, and answers a sender that stays open with a registered frame
\* marked as a reconnection.  (b) A task that is no longer pending (it was
\* cancelled or has fired) never becomes pending again, and a room or a
\* token leaves the registry or the index only in the firing of a task that
\* is pending.  (c) A task that fires when its room code is not in the
\* registry changes neither the registry nor the token index.
C26_CleanupNoOps ==
  [][/\ \A ws \in Sockets, tok \in 1..tokenCount, req \in Codes :
          (/\ RegisterReclaim(ws, tok, req)
           /\ rooms[req].cleanupTimeout \notin timers)
          => (/\ timers' = timers
              /\ rooms'[req].pc = ws
              /\ rooms'[req].mobile = rooms[req].mobile
              /\ currentRoom'[ws] = req /\ deviceType'[ws] = "pc"
              /\ reconnectionTokens' = reconnectionTokens
              /\ \A i \in DOMAIN sent' : sent'[i].frame.type # "error"
              /\ conn'[ws] = "open"
                   => (/\ RegisteredReply(ws)
                       /\ sent'[1].frame.isReconnection = TRUE
                       /\ sent'[1].frame.roomCode = req))
     /\ \A t \in Sockets :
          (t \notin timers /\ conn[t] = "closed") => t \notin timers'
     /\ (\/ \E k \in DOMAIN rooms : k \notin DOMAIN rooms'
         \/ \E tok \in DOMAIN reconnectionTokens : tok \notin DOMAIN reconnectionTokens')
          => \E t \in timers : CleanupTimeout(t)
     /\ \A t \in timers :
          (CleanupTimeout(t) /\ currentRoom[t] \notin DOMAIN rooms)
          => (rooms' = rooms /\ reconnectionTokens' = reconnectionTokens)]_vars

\* C26 witness: a cleanup task is pending whose room code has left the
\* registry (another task of the same room has fired before it).
C26_Witness ==
  \E t \in timers :
    /\ currentRoom[t] # NULL
    /\ currentRoom[t] \notin DOMAIN rooms
    /\ conn[t] = "closed"

\* C27 (basic broker): once the close event of a socket has been processed,
\* no room of the registry has that socket in its pc slot.
C27_BasicRoomsDieWithPc ==
  \A k \in DOMAIN rooms : conn[rooms[k].pc] # "closed"

\* C28: session and registry agree for every open socket; stated here for
\* the case the claim singles out: when a cleanup task deletes a room whose
\* primary was disconnected by its peer, the secondary that was in the room
\* at that disconnect and is still open and bound to it is not left with a
\* session bound to a room that is no longer in the registry.
C28_CleanupLeavesNoOpenSession ==
  [][\A t \in timers, s \in Sockets :
       (/\ CleanupTimeout(t)
        /\ currentRoom[t] \in DOMAIN rooms
        /\ secondaryAtPcClose[currentRoom[t]] = s
        /\ IsOpen(s)
        /\ Bound(s, currentRoom[t], "mobile"))
       => (conn'[s] = "open" /\ currentRoom'[s] # NULL
             => currentRoom'[s] \in DOMAIN rooms')]_vars

\* C29: processing a register_pc or a join_room frame of an open socket
\* never closes that socket.
C29_SenderStaysOpen ==
  [][\A ws \in Sockets :
       (/\ conn[ws] = "open"
        /\ \/ \E tok \in 0..tokenCount, req \in Codes \cup {NULL} :
                RegisterReclaim(ws, tok, req) \/ RegisterFresh(ws, tok, req)
           \/ \E input \in JoinInputs : JoinRoom(ws, input) \/ JoinRoomInvalid(ws, input))
       => conn'[ws] = "open"]_vars

\* C30: a relay frame is relayed only when its sender is the socket held in
\* its role's slot of its room.  Stated for a delivery to another socket
\* that is bound to the same room in the opposite role, in a room whose two
\* slots hold different sockets: whenever a relay frame of ws delivers a
\* data frame to such a peer, ws is the socket in its role's slot of the
\* room.
C30_RelayOnlyFromSlotHolder ==
  [][\A ws \in Sockets, p \in Payloads :
       (/\ Relay(ws, p)
        /\ sent' # <<>>
        /\ sent'[1].to # ws
        /\ Bound(sent'[1].to, currentRoom[ws],
                 IF deviceType[ws] = "pc" THEN "mobile" ELSE "pc")
        /\ rooms[currentRoom[ws]].pc # rooms[currentRoom[ws]].mobile)
       => IF deviceType[ws] = "pc"
            THEN rooms[currentRoom[ws]].pc = ws
            ELSE rooms[currentRoom[ws]].mobile = ws]_vars

\* C31: a relay frame of an open socket that has no session, or whose
\* session names a room code that is not in the registry, delivers exactly
\* one error frame ("Not in a room"), to the sender, and no data frame; the
\* registry, the token index, every session, the pending cleanup tasks and
\* every connection stay as they were.
C31_RelayWithoutRoomOnlyAnswered ==
  [][\A ws \in Sockets, p \in Payloads :
       (/\ RelayNotInRoom(ws, p)
        /\ conn[ws] = "open")
       => (/\ Len(sent') = 1
           /\ sent'[1].to = ws
           /\ sent'[1].frame.type = "error"
           /\ sent'[1].frame.message = "Not in a room"
           /\ rooms' = rooms
           /\ reconnectionTokens' = reconnectionTokens
           /\ currentRoom' = currentRoom
           /\ deviceType' = deviceType
           /\ timers' = timers
           /\ conn' = conn)]_vars

\* C31 witness: an open socket whose session names a room code that has
\* left the registry has just been answered "Not in a room".
C31_Witness ==
  /\ Len(sent) = 1
  /\ sent[1].frame.type = "error"
  /\ sent[1].frame.message = "Not in a room"
  /\ IsOpen(sent[1].to)
  /\ currentRoom[sent[1].to] # NULL
  /\ currentRoom[sent[1].to] \notin DOMAIN rooms

C32_NoReconnectAfterDisconnect ==
  [][\A s \in ClientSockets, error \in BOOLEAN :
       (/\ ClientClose(s, error)
        /\ clientSockets[s] = "closing"
        /\ s \in clientHist.registered
        /\ client.ws = NoSocket)
       => reconnectTimers' = {}]_vars

\* C33: the flags of the client describe its current socket only; stated
\* for the case the claim singles out: while this.ws is an open socket that
\* has received registered and the flags say so, the close event of an
\* earlier socket leaves isConnected true and roomCode non-null.
C33_OldCloseKeepsFlags ==
  [][\A s \in ClientSockets, error \in BOOLEAN :
       (/\ ClientClose(s, error)
        /\ client.ws # NoSocket /\ client.ws # s
        /\ clientSockets[client.ws] = "open"
        /\ client.ws \in clientHist.registered
        /\ client.isConnected /\ client.roomCode # NULL)
       => (client'.isConnected /\ client'.roomCode # NULL)]_vars

\* C34: without disconnect(), a reconnect attempt leaves the client with at
\* most one socket that is open or connecting and with at most one pending
\* reconnect timer: stated for the step in which a reconnect timer fires
\* while the client has at most one such socket.
C34_OneTimerOneSocket ==
  [][\A t \in ClientSockets :
       (/\ ReconnectTimeout(t)
        /\ ~clientHist.disconnectCalled
        /\ Cardinality({s \in ClientSockets :
                          clientSockets[s] \in {"connecting", "open"}}) <= 1)
       => (/\ Cardinality({s \in ClientSockets :
                             clientSockets'[s] \in {"connecting", "open"}}) <= 1
           /\ Cardinality(reconnectTimers') <= 1)]_vars

\* C36: testConnection never rejects: on entry it sets the status to
\* CONNECTING and clears connectionError; every call that resolves returns
\* isConnected true or false, and when the call did not overlap another
\* call the status after the resolving step is CONNECTED exactly if it
\* returned true, otherwise ERROR with a connectionError that is not null;
\* with no call in flight the status is not CONNECTING; and
\* resetConnectionStatus leaves IDLE with a null error.
C36_TestConnectionSettlesStatus ==
  [][/\ \A c \in Calls :
          /\ testConnection(c) =>
               (connectionStatus' = "connecting" /\ connectionError' = NULL)
          /\ (Running(c) /\ calls'[c].pc = "done") =>
               /\ calls'[c].isConnected \in {"true", "false"}
               /\ ~calls'[c].overlapped =>
                    /\ (connectionStatus' = "connected") <=> (calls'[c].isConnected = "true")
                    /\ (calls'[c].isConnected = "false") =>
                         (connectionStatus' = "error" /\ connectionError' # NULL)
     /\ (\A c \in Calls : calls'[c].pc \in {"idle", "done"}) =>
          connectionStatus' # "connecting"
     /\ resetConnectionStatus =>
          (connectionStatus' = "idle" /\ connectionError' = NULL)]_vars

\* A call that overlapped no other has timed out in its second race and
\* left ERROR behind, after an earlier call had left CONNECTED.
C36_Witness ==
  \E c \in Calls : \E b \in Calls \ {c} :
    /\ calls[c].pc = "done" /\ ~calls[c].overlapped
    /\ calls[c].isConnected = "false" /\ calls[c].timedOut
    /\ calls[b].pc = "done" /\ ~calls[b].overlapped
    /\ calls[b].isConnected = "true"
    /\ connectionStatus = "error"
    /\ connectionError = "Connection timed out after 10 seconds"

====
